---------------------------- MODULE Spec2Model ----------------------------
(***************************************************************************)
(* A model of azsm (Azure Save Money): the disk tier mapper, the pricing   *)
(* client (query planning and reconciliation of catalog records) and the   *)
(* cost calculator.                                                        *)
(*                                                                         *)
(* Conventions.                                                            *)
(*  - A Python value that may be None is a set with at most one element:   *)
(*    {} is None, {r} is the value r.  Truthy(s) is Python's truth test.   *)
(*  - Rates are exact rationals scaled to integers (thousandths of the     *)
(*    currency unit), so that sums and products are exact.                 *)
(*  - A Python dict is a function whose DOMAIN is the set of keys.         *)
(*  - An exception that leaves a handler is recorded in `raised`.          *)
(***************************************************************************)
EXTENDS Integers, Sequences, FiniteSets, TLC

VARIABLES
    \* ---- DiskMapper.get_tier_from_size applied to drawn inputs
    size_gb,        \* first capacity
    size_gb_2,      \* second capacity (for the comparison of two capacities)
    disk_type,      \* storage class string
    tier_name,      \* result for size_gb, "unset" before the call
    tier_name_2,    \* result for size_gb_2
    \* ---- compute reconciliation applied to the records of one query
    rc_items,       \* vm_pricing_data: the records, in arrival order
    rc_vm_size,     \* the size class of the query
    rc_out,         \* None, or the locals of the try block after line 170
    \* ---- AzureCostAnalyzer.run: get_pricing_data, then calculate_costs
    virtual_machines,   \* resources_data["virtual_machines"]
    disks,              \* resources_data["disks"]
    debug,              \* PricingClient.debug
    pc,                 \* position of the run
    vm_pricing,         \* pricing_data["virtual_machines"], keyed <<region, vm_size>>
    vm_visited,         \* (region, vm_size) iterations of _get_vm_pricing done
    disk_pricing,       \* pricing_data["disks"], keyed <<region, sku>>
    disk_region,        \* loop variable `region` of _get_disk_pricing (None before)
    disk_started,       \* regions whose iteration has started
    disk_visited,       \* (sku, size) iterations done in the current region
    requests,           \* bag of the catalog requests issued
    fetched,            \* what the catalog answered, per iteration that queried
    warnings,           \* bag of the warnings and errors printed
    cost_data,          \* the CostResult being built
    calc_i,             \* resources processed by the current loop of calculate_costs
    raised,             \* the exception that ended the run, "none" otherwise
    \* ---- PricingClient._fetch_all_pricing_data against a drawn catalog
    catalog,        \* what the server answers per URL: [Items, NextPageLink]
    current_url,    \* the URL of the next request
    all_items,      \* the records collected so far
    page_count,     \* the page counter of the debug output
    fetch_pc,       \* "loop" while next_page, then "returned" or "raised"
    fetch_log       \* the URLs requested, in order

tierVars == <<size_gb, size_gb_2, disk_type, tier_name, tier_name_2>>
rcVars == <<rc_items, rc_vm_size, rc_out>>
inputVars == <<virtual_machines, disks, debug>>
vmVars == <<vm_pricing, vm_visited>>
diskVars == <<disk_pricing, disk_region, disk_started, disk_visited>>
logVars == <<requests, fetched, warnings>>
calcVars == <<cost_data, calc_i>>
runVars == <<inputVars, pc, vmVars, diskVars, logVars, calcVars, raised>>

fetchVars == <<catalog, current_url, all_items, page_count, fetch_pc, fetch_log>>

vars == <<tierVars, rcVars, runVars, fetchVars>>

-----------------------------------------------------------------------------
(* Python values *)

None == {}
Some(x) == {x}
IsNone(s) == s = {}
Val(s) == CHOOSE x \in s : TRUE
\* Python truth value of an optional number: None and 0 are false.
Truthy(s) == s # {} /\ s # {0}

Max(S) == CHOOSE x \in S : \A y \in S : y <= x
Min(S) == CHOOSE x \in S : \A y \in S : x <= y

\* d[k] = v on a dict
Put(d, k, v) == (k :> v) @@ d
\* d.get(k) for a dict of optional values: None when the key is missing
Get(d, k) == IF k \in DOMAIN d THEN d[k] ELSE None
\* one more occurrence of k in a bag
BagAdd(b, k) == IF k \in DOMAIN b THEN [b EXCEPT ![k] = @ + 1] ELSE (k :> 1) @@ b
BagCount(b, k) == IF k \in DOMAIN b THEN b[k] ELSE 0
\* lists of at most n elements of S
SeqsUpTo(S, n) == UNION {[1..k -> S] : k \in 0..n}

\* sorted(d.keys()) for integer keys
RECURSIVE Sorted(_)
Sorted(S) == IF S = {} THEN <<>> ELSE <<Min(S)>> \o Sorted(S \ {Min(S)})

-----------------------------------------------------------------------------
(* utils.py: the tier tables *)

PREMIUM_DISK_SIZES ==
    4 :> "P1" @@ 8 :> "P2" @@ 16 :> "P3" @@ 32 :> "P4" @@ 64 :> "P6" @@
    128 :> "P10" @@ 256 :> "P15" @@ 512 :> "P20" @@ 1024 :> "P30" @@
    2048 :> "P40" @@ 4096 :> "P50" @@ 8192 :> "P60" @@ 16384 :> "P70" @@
    32767 :> "P80"

STANDARD_SSD_SIZES ==
    4 :> "E1" @@ 8 :> "E2" @@ 16 :> "E3" @@ 32 :> "E4" @@ 64 :> "E6" @@
    128 :> "E10" @@ 256 :> "E15" @@ 512 :> "E20" @@ 1024 :> "E30" @@
    2048 :> "E40" @@ 4096 :> "E50" @@ 8192 :> "E60" @@ 16384 :> "E70" @@
    32767 :> "E80"

STANDARD_HDD_SIZES ==
    32 :> "S4" @@ 64 :> "S6" @@ 128 :> "S10" @@ 256 :> "S15" @@
    512 :> "S20" @@ 1024 :> "S30" @@ 2048 :> "S40" @@ 4096 :> "S50" @@
    8192 :> "S60" @@ 16384 :> "S70" @@ 32767 :> "S80"

\* The storage class strings the model draws from: the three families, their
\* zone-redundant variants, and two classes outside the three families.
DiskTypes ==
    {"Premium_LRS", "StandardSSD_LRS", "Standard_LRS",
     "Premium_ZRS", "StandardSSD_ZRS", "Standard_ZRS",
     "UltraSSD_LRS", "PremiumV2_LRS"}

\* disk_type.replace("_ZRS", "_LRS") on the strings of DiskTypes
ReplaceZRS(t) ==
    CASE t = "Premium_ZRS" -> "Premium_LRS"
      [] t = "StandardSSD_ZRS" -> "StandardSSD_LRS"
      [] t = "Standard_ZRS" -> "Standard_LRS"
      [] OTHER -> t

\* next((s for s in available_sizes if s >= size_gb), available_sizes[-1])
\* over the sorted list: the scan from position i.
RECURSIVE NextAtLeast(_, _, _)
NextAtLeast(available_sizes, i, size) ==
    IF i > Len(available_sizes) THEN available_sizes[Len(available_sizes)]
    ELSE IF available_sizes[i] >= size THEN available_sizes[i]
    ELSE NextAtLeast(available_sizes, i + 1, size)

\* A scan with the comparison s > size_gb.
RECURSIVE NextAbove(_, _, _)
NextAbove(available_sizes, i, size) ==
    IF i > Len(available_sizes) THEN available_sizes[Len(available_sizes)]
    ELSE IF available_sizes[i] > size THEN available_sizes[i]
    ELSE NextAbove(available_sizes, i + 1, size)

\* A scan whose default is the first element instead of the last.
RECURSIVE NextAtLeastOrFirst(_, _, _)
NextAtLeastOrFirst(available_sizes, i, size) ==
    IF i > Len(available_sizes) THEN available_sizes[1]
    ELSE IF available_sizes[i] >= size THEN available_sizes[i]
    ELSE NextAtLeastOrFirst(available_sizes, i + 1, size)

\* The table of a storage class after the _ZRS mapping; <<>> (no key) for a
\* class outside the three families.
SizesOf(t) ==
    CASE ReplaceZRS(t) = "Premium_LRS" -> PREMIUM_DISK_SIZES
      [] ReplaceZRS(t) = "StandardSSD_LRS" -> STANDARD_SSD_SIZES
      [] ReplaceZRS(t) = "Standard_LRS" -> STANDARD_HDD_SIZES
      [] OTHER -> <<>>

\* The table lookup without the _ZRS mapping.
SizesOfNoZRS(t) ==
    CASE t = "Premium_LRS" -> PREMIUM_DISK_SIZES
      [] t = "StandardSSD_LRS" -> STANDARD_SSD_SIZES
      [] t = "Standard_LRS" -> STANDARD_HDD_SIZES
      [] OTHER -> <<>>

\* The rounding step with the comparison s > size_gb.
TargetSizeAbove(sizes, size) == NextAbove(Sorted(DOMAIN sizes), 1, size)

\* The rounding step with the first size as the default.
TargetSizeOrFirst(sizes, size) == NextAtLeastOrFirst(Sorted(DOMAIN sizes), 1, size)

\* The rounding step of get_tier_from_size (lines 129-130).
TargetSize(sizes, size) == NextAtLeast(Sorted(DOMAIN sizes), 1, size)

\* DiskMapper.get_tier_from_size; the string "None" is Python's None.
get_tier_from_size(size, t) ==
    LET sizes == SizesOf(t)
    IN  IF DOMAIN sizes = {} THEN "None"
        ELSE sizes[TargetSize(sizes, size)]

\* DiskMapper.get_disk_tiers (lines 83-105): the capacity is rounded in the
\* Premium table, and a family is listed when the rounded size is a key of
\* its table.
get_disk_tiers(size) ==
    LET target_size == TargetSize(PREMIUM_DISK_SIZES, size)
    IN  [t \in {f \in {"Premium_LRS", "StandardSSD_LRS", "Standard_LRS"} :
                    target_size \in DOMAIN SizesOf(f)}
            |-> SizesOf(t)[target_size]]

-----------------------------------------------------------------------------
(* pricing_client.py: compute reconciliation (the try block of              *)
(* _get_vm_pricing, lines 96-172, for one query)                            *)

\* self.windows_license_cost, in thousandths (0.184 per hour)
windows_license_cost == ("Standard_D4as_v5" :> 184)

\* A surcharge lookup that ignores the table.
WindowsLicenseNone(vm_size) == 0

\* self.windows_license_cost.get(vm_size, 0)
WindowsLicense(vm_size) ==
    IF vm_size \in DOMAIN windows_license_cost THEN windows_license_cost[vm_size] ELSE 0

\* The product and meter labels the model draws from, and the substring tests
\* the code applies to them.
ProductNames == {"Virtual Machines Dasv5 Series", "Virtual Machines Dasv5 Series Windows"}
MeterNames == {"D4as v5", "D4as v5 Spot", "D4as v5 Low Priority", "D4as v5 Spot Low Priority"}

\* "Windows" in item.get("productName", "")
HasWindows(productName) == productName = "Virtual Machines Dasv5 Series Windows"
\* "Spot" in item.get("meterName", "")
HasSpot(meterName) == meterName \in {"D4as v5 Spot", "D4as v5 Spot Low Priority"}
\* "Low Priority" in item.get("meterName", "")
HasLowPriority(meterName) ==
    meterName \in {"D4as v5 Low Priority", "D4as v5 Spot Low Priority"}

\* os_type of an item (line 122)
OsTypeOf(item) == IF HasWindows(item.productName) THEN "windows" ELSE "linux"

\* pricing_result as initialised (lines 96-115)
EmptyPricingResult ==
    [windows |-> [pay_as_you_go |-> None, low_priority |-> None, spot |-> None,
                  savings_plan_1yr |-> None, savings_plan_3yr |-> None,
                  hybrid_benefit |-> None, hybrid_savings_plan_1yr |-> None,
                  hybrid_savings_plan_3yr |-> None],
     linux |-> [pay_as_you_go |-> None, low_priority |-> None, spot |-> None,
                savings_plan_1yr |-> None, savings_plan_3yr |-> None]]

\* The locals of the try block; failed is set when a statement raised.
FoldStart ==
    [pricing_result |-> EmptyPricingResult,
     linux_base_price |-> None,
     windows_base_price |-> None,
     failed |-> FALSE]

\* One savings plan entry of a Linux item (lines 147-158).  A plan without a
\* rate makes linux_price + windows_license raise TypeError.
FoldPlan(st, plan, vm_size) ==
    IF st.failed THEN st
    ELSE IF plan.term = "1 Year" THEN
        IF IsNone(plan.retailPrice) THEN [st EXCEPT !.failed = TRUE]
        ELSE [st EXCEPT
                !.pricing_result.linux.savings_plan_1yr = plan.retailPrice,
                !.pricing_result.windows.savings_plan_1yr =
                    Some(Val(plan.retailPrice) + WindowsLicense(vm_size))]
    ELSE IF plan.term = "3 Years" THEN
        IF IsNone(plan.retailPrice) THEN [st EXCEPT !.failed = TRUE]
        ELSE [st EXCEPT
                !.pricing_result.linux.savings_plan_3yr = plan.retailPrice,
                !.pricing_result.windows.savings_plan_3yr =
                    Some(Val(plan.retailPrice) + WindowsLicense(vm_size))]
    ELSE st

RECURSIVE FoldPlans(_, _, _, _)
FoldPlans(st, plans, i, vm_size) ==
    IF i > Len(plans) THEN st
    ELSE FoldPlans(FoldPlan(st, plans[i], vm_size), plans, i + 1, vm_size)

\* A Consumption branch that tests the low priority marker before the spot
\* marker.
FoldConsumptionLowFirst(st, item) ==
    LET os_type == OsTypeOf(item)
    IN  IF item.type # "Consumption" THEN st
        ELSE IF HasLowPriority(item.meterName) THEN
            [st EXCEPT !.pricing_result[os_type].low_priority = item.retailPrice]
        ELSE IF HasSpot(item.meterName) THEN
            [st EXCEPT !.pricing_result[os_type].spot = item.retailPrice]
        ELSE IF os_type = "linux" THEN
            [st EXCEPT !.pricing_result[os_type].pay_as_you_go = item.retailPrice,
                       !.linux_base_price = item.retailPrice]
        ELSE
            [st EXCEPT !.pricing_result[os_type].pay_as_you_go = item.retailPrice,
                       !.windows_base_price = item.retailPrice]

\* The Consumption branch of the loop body (lines 129-140).
FoldConsumption(st, item) ==
    LET os_type == OsTypeOf(item)
    IN  IF item.type # "Consumption" THEN st
        ELSE IF HasSpot(item.meterName) THEN
            [st EXCEPT !.pricing_result[os_type].spot = item.retailPrice]
        ELSE IF HasLowPriority(item.meterName) THEN
            [st EXCEPT !.pricing_result[os_type].low_priority = item.retailPrice]
        ELSE IF os_type = "linux" THEN
            [st EXCEPT !.pricing_result[os_type].pay_as_you_go = item.retailPrice,
                       !.linux_base_price = item.retailPrice]
        ELSE
            [st EXCEPT !.pricing_result[os_type].pay_as_you_go = item.retailPrice,
                       !.windows_base_price = item.retailPrice]

\* The savings plan branch of the loop body (lines 143-158): only for an
\* item that has the savingsPlan key and is a Linux item.
FoldSavingsPlan(st, item, vm_size) ==
    IF IsNone(item.savingsPlan) \/ OsTypeOf(item) # "linux" THEN st
    ELSE FoldPlans(st, Val(item.savingsPlan), 1, vm_size)

\* The loop body for one item (lines 121-158).
FoldItem(st, item, vm_size) ==
    IF st.failed THEN st
    ELSE IF item.type = "DevTestConsumption" THEN st
    ELSE FoldSavingsPlan(FoldConsumption(st, item), item, vm_size)

RECURSIVE FoldItems(_, _, _, _)
FoldItems(st, items, i, vm_size) ==
    IF i > Len(items) THEN st
    ELSE FoldItems(FoldItem(st, items[i], vm_size), items, i + 1, vm_size)

\* A hybrid step that takes the Windows base price.
HybridStepWindows(st) ==
    IF st.failed THEN st
    ELSE IF Truthy(st.windows_base_price) /\ Truthy(st.linux_base_price) THEN
        [st EXCEPT !.pricing_result.windows.hybrid_benefit = st.windows_base_price]
    ELSE st

\* A hybrid step that takes each commitment slot from the other term.
HybridStepSwapped(st) ==
    IF st.failed THEN st
    ELSE IF Truthy(st.windows_base_price) /\ Truthy(st.linux_base_price) THEN
        LET lx == st.pricing_result.linux
        IN  [st EXCEPT
                !.pricing_result.windows.hybrid_benefit = st.linux_base_price,
                !.pricing_result.windows.hybrid_savings_plan_1yr =
                    IF Truthy(lx.savings_plan_3yr) THEN lx.savings_plan_3yr ELSE @,
                !.pricing_result.windows.hybrid_savings_plan_3yr =
                    IF Truthy(lx.savings_plan_1yr) THEN lx.savings_plan_1yr ELSE @]
    ELSE st

\* The hybrid benefit step after the loop (lines 161-170).
HybridStep(st) ==
    IF st.failed THEN st
    ELSE IF Truthy(st.windows_base_price) /\ Truthy(st.linux_base_price) THEN
        LET lx == st.pricing_result.linux
        IN  [st EXCEPT
                !.pricing_result.windows.hybrid_benefit = st.linux_base_price,
                !.pricing_result.windows.hybrid_savings_plan_1yr =
                    IF Truthy(lx.savings_plan_1yr) THEN lx.savings_plan_1yr ELSE @,
                !.pricing_result.windows.hybrid_savings_plan_3yr =
                    IF Truthy(lx.savings_plan_3yr) THEN lx.savings_plan_3yr ELSE @]
    ELSE st

\* Reconciliation of the records of one query: the locals after line 170.
ReconcileVm(items, vm_size) == HybridStep(FoldItems(FoldStart, items, 1, vm_size))

-----------------------------------------------------------------------------
(* The run: inventory, requests, warnings                                   *)

\* A catalog request, by the fields of its filter.
VmRequest(region, vm_size) ==
    [kind |-> "vm", armRegionName |-> region, skuName |-> vm_size,
     productName |-> "", meterName |-> ""]

\* The iteration that issued a query: (region, vm_size) of _get_vm_pricing,
\* (region, disk_sku, disk_size) of _get_disk_pricing.
VmIteration(region, vm_size) == <<"vm", region, vm_size, 0>>
DiskIteration(region, disk_sku, disk_size) == <<"disk", region, disk_sku, disk_size>>

\* The error line of the except branch of _get_vm_pricing (line 176).
VmError(region, vm_size) ==
    [kind |-> "vm_error", region |-> region, sku |-> vm_size, size |-> 0]

\* The error line of the except branch of _get_disk_pricing (line 280).
DiskError(region, disk_sku, disk_size) ==
    [kind |-> "disk_error", region |-> region, sku |-> disk_sku, size |-> disk_size]

\* The warning of line 230; the message names no region.
NoTierWarning(disk_sku, disk_size) ==
    [kind |-> "no_tier", region |-> "", sku |-> disk_sku, size |-> disk_size]

\* The warning of cost_calculator.py line 166.
NoPriceWarning(region, sku, size) ==
    [kind |-> "no_price", region |-> region, sku |-> sku, size |-> size]

\* vm_regions and vm_sizes (lines 83-84)
VmRegions(vms) == {vms[i].location : i \in DOMAIN vms}
VmSizes(vms) == {vms[i].vm_size : i \in DOMAIN vms}

\* A plan of the pairs that occur in the inventory only.
VmPlanObserved(vms) == {<<vms[i].location, vms[i].vm_size>> : i \in DOMAIN vms}

\* The pairs the nested loops visit (lines 86-89).
VmPlan(vms) == VmRegions(vms) \X VmSizes(vms)

\* The outcome of _fetch_all_pricing_data for one query: ok = FALSE when the
\* request or the parsing of a page raised, otherwise the items of all pages.
FetchRaised == [ok |-> FALSE, items |-> <<>>]
Fetched(items) == [ok |-> TRUE, items |-> items]

-----------------------------------------------------------------------------
(* pricing_client.py: _get_vm_pricing                                       *)

\* An except branch that stores the record as far as it was initialised.
VmExceptPartial(region, vm_size) ==
    /\ warnings' = BagAdd(warnings, VmError(region, vm_size))
    /\ vm_pricing' = Put(vm_pricing, <<region, vm_size>>, EmptyPricingResult)

\* except branch (lines 175-176): the error is printed, nothing is stored.
VmExcept(region, vm_size) ==
    /\ warnings' = BagAdd(warnings, VmError(region, vm_size))
    /\ vm_pricing' = vm_pricing

\* An except branch that prints nothing.
VmExceptSilent(region, vm_size) ==
    /\ warnings' = warnings
    /\ vm_pricing' = vm_pricing

\* line 172: the record is stored under (region, vm_size).
VmStore(region, vm_size, pricing_result) ==
    /\ vm_pricing' = Put(vm_pricing, <<region, vm_size>>, pricing_result)
    /\ warnings' = warnings

\* One iteration of the inner loop (lines 89-176) with the outcome of its fetch.
VmQuery(region, vm_size, resp) ==
    /\ pc = "vm_pricing"
    /\ <<region, vm_size>> \in VmPlan(virtual_machines) \ vm_visited
    /\ requests' = BagAdd(requests, VmRequest(region, vm_size))
    /\ fetched' = Put(fetched, VmIteration(region, vm_size), resp)
    /\ vm_visited' = vm_visited \cup {<<region, vm_size>>}
    /\ IF ~resp.ok THEN VmExcept(region, vm_size)
       ELSE LET st == ReconcileVm(resp.items, vm_size)
            IN  IF st.failed THEN VmExcept(region, vm_size)
                ELSE VmStore(region, vm_size, st.pricing_result)
    /\ UNCHANGED <<inputVars, pc, diskVars, calcVars, raised, tierVars, rcVars, fetchVars>>

\* The loops are exhausted: _get_vm_pricing returns (line 178).
VmPricingDone ==
    /\ pc = "vm_pricing"
    /\ vm_visited = VmPlan(virtual_machines)
    /\ pc' = "disk_pricing"
    /\ UNCHANGED <<inputVars, vmVars, diskVars, logVars, calcVars, raised, tierVars, rcVars, fetchVars>>

-----------------------------------------------------------------------------
(* pricing_client.py: _get_disk_pricing                                     *)

\* disk_regions, disk_skus, disk_sizes (lines 185-190)
DiskRegions(ds) == {ds[i].location : i \in DOMAIN ds}
DiskSkus(ds) == {Val(ds[i].sku) : i \in {j \in DOMAIN ds : ds[j].sku # None}}
DiskSizes(ds) ==
    {<<Val(ds[i].sku), Val(ds[i].disk_size_gb)>> :
        i \in {j \in DOMAIN ds : ds[j].sku # None /\ Truthy(ds[j].disk_size_gb)}}

\* The substring tests of lines 234-248 on the strings of DiskTypes.
HasZRS(disk_sku) == disk_sku \in {"Premium_ZRS", "StandardSSD_ZRS", "Standard_ZRS"}
Redundancy(disk_sku) == IF HasZRS(disk_sku) THEN "ZRS" ELSE "LRS"
ProductName(disk_sku) ==
    IF disk_sku \in {"Premium_LRS", "Premium_ZRS", "PremiumV2_LRS"}
        THEN "Premium SSD Managed Disks"
    ELSE IF disk_sku \in {"StandardSSD_LRS", "StandardSSD_ZRS"}
        THEN "Standard SSD Managed Disks"
    ELSE IF disk_sku \in {"Standard_LRS", "Standard_ZRS"}
        THEN "Standard HDD Managed Disks"
    ELSE "Ultra Disks"

\* The filter of lines 250-256: region, "<tier> <redundancy>", product, meter.
DiskRequest(region, disk_sku, tier) ==
    [kind |-> "disk", armRegionName |-> region,
     skuName |-> <<tier, Redundancy(disk_sku)>>,
     productName |-> ProductName(disk_sku),
     meterName |-> <<tier, Redundancy(disk_sku), "Disk">>]

\* The per-sku structure of lines 218-223 (tier_mapping is never written).
EmptyDiskRecord == [pay_as_you_go |-> <<>>, reserved |-> <<>>, alternatives |-> <<>>]

\* format_currency(amount, currency) raises TypeError for None, whatever the
\* currency (utils.py lines 162-172).
FormatCurrencyRaises(amount) == IsNone(amount)

\* The loop body of lines 266-277 for one item; st = [rec, failed].
DiskFoldItem(st, item, disk_size, dbg) ==
    IF st.failed THEN st
    ELSE IF item.type = "Consumption" THEN
        [rec |-> [st.rec EXCEPT !.pay_as_you_go = Put(@, disk_size, item.retailPrice)],
         failed |-> dbg /\ FormatCurrencyRaises(item.retailPrice)]
    ELSE IF item.type = "Reservation" /\ item.reservationTerm = "1 Year" THEN
        [rec |-> [st.rec EXCEPT !.reserved = Put(@, disk_size, item.retailPrice)],
         failed |-> dbg /\ FormatCurrencyRaises(item.retailPrice)]
    ELSE st

RECURSIVE DiskFoldItems(_, _, _, _, _)
DiskFoldItems(st, items, i, disk_size, dbg) ==
    IF i > Len(items) THEN st
    ELSE DiskFoldItems(DiskFoldItem(st, items[i], disk_size, dbg), items, i + 1,
                       disk_size, dbg)

\* The try block of lines 260-282 on the outcome of the fetch: the record of
\* (region, disk_sku) afterwards, and whether the except branch ran.
DiskTry(rec, resp, disk_size, dbg) ==
    IF ~resp.ok THEN [rec |-> rec, failed |-> TRUE]
    ELSE DiskFoldItems([rec |-> rec, failed |-> FALSE], resp.items, 1, disk_size, dbg)

\* One alternative entry (lines 290-293, 297-300).
AlternativeEntry(table, region, alt_sku, disk_size) ==
    [pay_as_you_go |-> Get(table[<<region, alt_sku>>].pay_as_you_go, disk_size),
     reserved |-> Get(table[<<region, alt_sku>>].reserved, disk_size)]

\* alternatives[disk_size] of a Premium_LRS record (lines 285-300), from the
\* table as it is when the pair has been processed.
Alternatives(table, region, disk_size) ==
    [alt_sku \in {a \in {"StandardSSD_LRS", "Standard_LRS"} :
                    <<region, a>> \in DOMAIN table}
        |-> AlternativeEntry(table, region, alt_sku, disk_size)]

\* Lines 284-300 applied to the table after the try block.
WithAlternatives(table, region, disk_sku, disk_size) ==
    IF disk_sku = "Premium_LRS"
    THEN [table EXCEPT ![<<region, disk_sku>>].alternatives =
              Put(@, disk_size, Alternatives(table, region, disk_size))]
    ELSE table

\* The start of an iteration of the region loop (lines 213-223).
DiskRegionStart(region) ==
    /\ pc = "disk_pricing"
    /\ region \in DiskRegions(disks) \ disk_started
    /\ disk_region = None \/ disk_visited = DiskSizes(disks)
    /\ disk_region' = Some(region)
    /\ disk_started' = disk_started \cup {region}
    /\ disk_visited' = {}
    /\ disk_pricing' =
         [k \in {<<region, sku>> : sku \in DiskSkus(disks)} |-> EmptyDiskRecord]
             @@ disk_pricing
    /\ UNCHANGED <<inputVars, pc, vmVars, logVars, calcVars, raised, tierVars, rcVars, fetchVars>>

\* The tier is resolved: request, try block, alternatives (lines 233-300).
DiskQuery(region, disk_sku, disk_size, tier, resp) ==
    LET out == DiskTry(disk_pricing[<<region, disk_sku>>], resp, disk_size, debug)
        table == [disk_pricing EXCEPT ![<<region, disk_sku>>] = out.rec]
    IN  /\ requests' = BagAdd(requests, DiskRequest(region, disk_sku, tier))
        /\ fetched' = Put(fetched, DiskIteration(region, disk_sku, disk_size), resp)
        /\ warnings' = IF out.failed
                       THEN BagAdd(warnings, DiskError(region, disk_sku, disk_size))
                       ELSE warnings
        /\ disk_pricing' = WithAlternatives(table, region, disk_sku, disk_size)

\* A skip of the pair that prints nothing.
DiskSkipQuiet(disk_sku, disk_size) ==
    UNCHANGED <<warnings, requests, fetched, disk_pricing>>

\* The mapper knows no tier: warning, continue (lines 229-231).
DiskSkip(disk_sku, disk_size) ==
    /\ warnings' = BagAdd(warnings, NoTierWarning(disk_sku, disk_size))
    /\ UNCHANGED <<requests, fetched, disk_pricing>>

\* One iteration of the inner loop (lines 226-300) with the outcome of its fetch.
DiskPair(disk_sku, disk_size, resp) ==
    /\ pc = "disk_pricing"
    /\ disk_region # None
    /\ <<disk_sku, disk_size>> \in DiskSizes(disks) \ disk_visited
    /\ disk_visited' = disk_visited \cup {<<disk_sku, disk_size>>}
    /\ LET tier == get_tier_from_size(disk_size, disk_sku)
       IN  IF tier = "None" THEN DiskSkip(disk_sku, disk_size)
           ELSE DiskQuery(Val(disk_region), disk_sku, disk_size, tier, resp)
    /\ UNCHANGED <<inputVars, pc, vmVars, disk_region, disk_started, calcVars, raised,
                   tierVars, rcVars, fetchVars>>

\* The debug block after the loops (lines 303-322) raises when `region` was
\* never bound, or when format_currency gets a pay-as-you-go value of None.
DebugBlockRaises ==
    debug /\ (\/ disk_region = None
              \/ \E sku \in DiskSkus(disks) :
                    LET payg == disk_pricing[<<Val(disk_region), sku>>].pay_as_you_go
                    IN  \E size \in DOMAIN payg : FormatCurrencyRaises(payg[size]))

DebugBlockError ==
    IF disk_region = None THEN "UnboundLocalError" ELSE "TypeError"

\* The loops are exhausted: debug block, return (lines 302-324), and
\* get_pricing_data returns to run().
DiskPricingDone ==
    /\ pc = "disk_pricing"
    /\ disk_started = DiskRegions(disks)
    /\ disk_region = None \/ disk_visited = DiskSizes(disks)
    /\ IF DebugBlockRaises
       THEN pc' = "failed" /\ raised' = DebugBlockError
       ELSE pc' = "calc_vms" /\ raised' = raised
    /\ UNCHANGED <<inputVars, vmVars, diskVars, logVars, calcVars, tierVars, rcVars, fetchVars>>

-----------------------------------------------------------------------------
(* pricing_client.py: _fetch_all_pricing_data                               *)

\* The locals before the loop (lines 335-339).
FetchStart ==
    /\ current_url = 1 /\ all_items = <<>> /\ page_count = 1
    /\ fetch_pc = "loop" /\ fetch_log = <<>>

\* One iteration of the while loop (lines 341-380) whose request succeeds:
\* the Items of the page are appended when present and non-empty, and the
\* NextPageLink is followed when present and non-empty. The loop has no
\* page limit. The lists and the counter are tracked for the first
\* max_requests requests only: with more requests than URLs a URL has been
\* requested twice, and the loop goes on around the same links.
FetchPage(max_requests) ==
    /\ fetch_pc = "loop"
    /\ LET data == catalog[current_url]
           tracked == Len(fetch_log) < max_requests
       IN  /\ fetch_log' = IF tracked THEN Append(fetch_log, current_url) ELSE fetch_log
           /\ all_items' = IF tracked /\ data.Items # None /\ Val(data.Items) # <<>>
                           THEN all_items \o Val(data.Items) ELSE all_items
           /\ IF data.NextPageLink # None
              THEN /\ current_url' = Val(data.NextPageLink)
                   /\ page_count' = IF tracked THEN page_count + 1 ELSE page_count
                   /\ fetch_pc' = fetch_pc
              ELSE /\ fetch_pc' = "returned"
                   /\ UNCHANGED <<current_url, page_count>>
    /\ UNCHANGED <<catalog, tierVars, rcVars, runVars>>

\* An iteration whose requests.get, raise_for_status or json() raises
\* (lines 357-359): the exception leaves the function, nothing is returned.
FetchPageRaises(max_requests) ==
    /\ fetch_pc = "loop"
    /\ fetch_log' = IF Len(fetch_log) < max_requests
                    THEN Append(fetch_log, current_url) ELSE fetch_log
    /\ fetch_pc' = "raised"
    /\ UNCHANGED <<catalog, current_url, all_items, page_count, tierVars, rcVars, runVars>>

-----------------------------------------------------------------------------
(* cost_calculator.py                                                       *)

\* hours_per_month (line 102)
hours_per_month == 730

\* A percentage is kept as the exact fraction num / den; 0.0 is 0 / 1.
ZeroPercent == [num |-> 0, den |-> 1]

\* cost_data as initialised (lines 26-50)
InitialCostData ==
    [current_monthly_cost |-> 0,
     spot_monthly_cost |-> 0,
     low_priority_monthly_cost |-> 0,
     savings_plan_1yr_monthly_cost |-> 0,
     savings_plan_3yr_monthly_cost |-> 0,
     hybrid_monthly_cost |-> 0,
     hybrid_savings_plan_1yr |-> 0,
     hybrid_savings_plan_3yr |-> 0,
     savings_spot_percent |-> ZeroPercent,
     savings_low_priority_percent |-> ZeroPercent,
     savings_plan_1yr_percent |-> ZeroPercent,
     savings_plan_3yr_percent |-> ZeroPercent,
     reservations_1yr_monthly_cost |-> 0,
     reservations_3yr_monthly_cost |-> 0,
     reservations_low_priority_percent |-> ZeroPercent,
     hybrid_savings_percent |-> ZeroPercent,
     hybrid_savings_plan_1yr_percent |-> ZeroPercent,
     hybrid_savings_plan_3yr_percent |-> ZeroPercent,
     detailed |-> [virtual_machines |-> <<>>, disks |-> <<>>]]

\* pricing[slot] * hours_per_month if pricing[slot] else fallback
MonthlyOr(slot, fallback) ==
    IF Truthy(slot) THEN Val(slot) * hours_per_month ELSE fallback

\* A fallback of zero for an absent slot.
MonthlyOrZero(slot, fallback) ==
    IF Truthy(slot) THEN Val(slot) * hours_per_month ELSE 0

\* os_type of a resource (lines 93-94)
VmOsType(vm) == IF vm.os_type = "Windows" THEN "windows" ELSE "linux"

\* Lines 105-111 of _calculate_vm_cost: "KeyError" when the record read has no
\* key reservations_1yr / reservations_3yr, otherwise the costs computed.
VmCosts(pricing) ==
    LET current_cost == MonthlyOr(pricing.pay_as_you_go, 0)
    IN  IF "reservations_1yr" \notin DOMAIN pricing
            \/ "reservations_3yr" \notin DOMAIN pricing
        THEN [error |-> "KeyError"]
        ELSE [error |-> "none",
              current_cost |-> current_cost,
              spot_cost |-> MonthlyOr(pricing.spot, current_cost),
              low_priority_cost |-> MonthlyOr(pricing.low_priority, current_cost),
              savings_plan_1yr_cost |-> MonthlyOr(pricing.savings_plan_1yr, current_cost),
              savings_plan_3yr_cost |-> MonthlyOr(pricing.savings_plan_3yr, current_cost),
              reservations_1yr_cost |-> MonthlyOr(pricing.reservations_1yr, current_cost),
              reservations_3yr_cost |-> MonthlyOr(pricing.reservations_3yr, current_cost)]

\* Lines 115-121: the accumulators after the costs of one resource.
VmAccumulate(cd, c) ==
    [cd EXCEPT
        !.current_monthly_cost = @ + c.current_cost,
        !.spot_monthly_cost = @ + c.spot_cost,
        !.low_priority_monthly_cost = @ + c.low_priority_cost,
        !.savings_plan_1yr_monthly_cost = @ + c.savings_plan_1yr_cost,
        !.savings_plan_3yr_monthly_cost = @ + c.savings_plan_3yr_cost,
        !.reservations_1yr_monthly_cost = @ + c.reservations_1yr_cost,
        !.reservations_3yr_monthly_cost = @ + c.reservations_3yr_cost]

\* _calculate_vm_cost for resource i (lines 89-138): the cost data afterwards
\* and the exception raised.  With both reservation keys present the
\* accumulators are updated and building vm_detail raises NameError
\* (reservation_1yr_cost, line 134, is not defined).
CalculateVmCost(cd, i) ==
    LET vm == virtual_machines[i]
        key == <<vm.location, vm.vm_size>>
    IN  IF key \notin DOMAIN vm_pricing THEN [cost_data |-> cd, error |-> "none"]
        ELSE LET c == VmCosts(vm_pricing[key][VmOsType(vm)])
             IN  IF c.error # "none" THEN [cost_data |-> cd, error |-> c.error]
                 ELSE [cost_data |-> VmAccumulate(cd, c), error |-> "NameError"]

\* One iteration of the loop of lines 53-54.
CalcVm ==
    /\ pc = "calc_vms"
    /\ calc_i < Len(virtual_machines)
    /\ LET out == CalculateVmCost(cost_data, calc_i + 1)
       IN  /\ cost_data' = out.cost_data
           /\ IF out.error = "none"
              THEN pc' = pc /\ raised' = raised /\ calc_i' = calc_i + 1
              ELSE pc' = "failed" /\ raised' = out.error /\ calc_i' = calc_i
    /\ UNCHANGED <<inputVars, vmVars, diskVars, logVars, tierVars, rcVars, fetchVars>>

\* The loop of lines 53-54 is exhausted.
CalcVmsDone ==
    /\ pc = "calc_vms"
    /\ calc_i = Len(virtual_machines)
    /\ pc' = "calc_disks"
    /\ calc_i' = 0
    /\ UNCHANGED <<inputVars, vmVars, diskVars, logVars, cost_data, raised, tierVars, rcVars, fetchVars>>

\* savings / current_cost * 100 if current_cost > 0 else 0 (line 193)
SavingsPercent(savings, current_cost) ==
    IF current_cost > 0 THEN [num |-> savings * 100, den |-> current_cost]
    ELSE ZeroPercent

\* An entry of savings_options that is listed only when it costs less.
SavingsOptionCheaper(disk_pricing_region, alt_sku, alt_name, size, target_size, current_cost) ==
    IF alt_sku \notin DOMAIN disk_pricing_region THEN None
    ELSE LET alt_pricing == disk_pricing_region[alt_sku]
             alt_price == Get(alt_pricing.pay_as_you_go, target_size)
         IN  IF IsNone(alt_price) \/ Val(alt_price) >= current_cost THEN None
             ELSE Some([type |-> alt_sku,
                        name |-> alt_name,
                        tier_name |-> get_tier_from_size(size, alt_sku),
                        cost |-> Val(alt_price),
                        reserved_cost |-> Get(alt_pricing.reserved, target_size),
                        savings |-> current_cost - Val(alt_price),
                        savings_percent |->
                            SavingsPercent(current_cost - Val(alt_price), current_cost)])

\* One entry of savings_options (lines 186-205), or None.
SavingsOption(disk_pricing_region, alt_sku, alt_name, size, target_size, current_cost) ==
    IF alt_sku \notin DOMAIN disk_pricing_region THEN None
    ELSE LET alt_pricing == disk_pricing_region[alt_sku]
             alt_price == Get(alt_pricing.pay_as_you_go, target_size)
         IN  IF IsNone(alt_price) THEN None
             ELSE Some([type |-> alt_sku,
                        name |-> alt_name,
                        tier_name |-> get_tier_from_size(size, alt_sku),
                        cost |-> Val(alt_price),
                        reserved_cost |-> Get(alt_pricing.reserved, target_size),
                        savings |-> current_cost - Val(alt_price),
                        savings_percent |->
                            SavingsPercent(current_cost - Val(alt_price), current_cost)])

\* sku.startswith("Premium") on the strings of DiskTypes
StartsWithPremium(sku) == sku \in {"Premium_LRS", "Premium_ZRS", "PremiumV2_LRS"}

OptSeq(o) == IF IsNone(o) THEN <<>> ELSE <<Val(o)>>

\* pricing_data["disks"][region] as a dict keyed by sku
DiskPricingOf(region) ==
    [sku \in {k[2] : k \in {q \in DOMAIN disk_pricing : q[1] = region}}
        |-> disk_pricing[<<region, sku>>]]

\* A rounding step over the table's keys with the comparison s > size_gb.
DiskTargetSizeAbove(available_sizes, size) == NextAbove(available_sizes, 1, size)

\* target_size of _calculate_disk_cost (line 160), for a non-empty list
DiskTargetSize(available_sizes, size) == NextAtLeast(available_sizes, 1, size)

\* _calculate_disk_cost for resource i (lines 140-238): the cost data
\* afterwards, the warning printed (None when none) and the exception raised.
CalculateDiskCost(cd, i) ==
    LET disk == disks[i]
        region == disk.location
        quiet == [cost_data |-> cd, warning |-> None, error |-> "none"]
    IN  IF ~Truthy(disk.disk_size_gb) \/ IsNone(disk.sku) THEN quiet
        ELSE IF <<region, Val(disk.sku)>> \notin DOMAIN disk_pricing THEN quiet
        ELSE
        LET sku == Val(disk.sku)
            size == Val(disk.disk_size_gb)
            original_sku_pricing == disk_pricing[<<region, sku>>]
            available_sizes == Sorted(DOMAIN original_sku_pricing.pay_as_you_go)
        IN  \* available_sizes[-1] is evaluated before next(): IndexError on []
            IF available_sizes = <<>>
            THEN [cost_data |-> cd, warning |-> None, error |-> "IndexError"]
            ELSE
            LET target_size == DiskTargetSize(available_sizes, size)
                pay_as_you_go_price == Get(original_sku_pricing.pay_as_you_go, target_size)
            IN  IF IsNone(pay_as_you_go_price)
                THEN [cost_data |-> cd,
                      warning |-> Some(NoPriceWarning(region, sku, size)),
                      error |-> "none"]
                ELSE
                LET current_cost == Val(pay_as_you_go_price)
                    reserved_price == Get(original_sku_pricing.reserved, target_size)
                    region_pricing == DiskPricingOf(region)
                    savings_options ==
                        IF StartsWithPremium(sku)
                        THEN OptSeq(SavingsOption(region_pricing, "StandardSSD_LRS",
                                        "Standard SSD", size, target_size, current_cost))
                             \o OptSeq(SavingsOption(region_pricing, "Standard_LRS",
                                        "Standard HDD", size, target_size, current_cost))
                        ELSE <<>>
                    reserved_cost == IF Truthy(reserved_price) THEN reserved_price ELSE None
                    savings == IF Truthy(reserved_price)
                               THEN current_cost - Val(reserved_price) ELSE 0
                    disk_detail ==
                        [name |-> i, sku |-> sku,
                         tier_name |-> get_tier_from_size(size, sku),
                         size_gb |-> size, region |-> region,
                         current_monthly_cost |-> current_cost,
                         reserved_monthly_cost |-> reserved_cost,
                         reservation_eligible |-> reserved_cost # None,
                         savings |-> savings,
                         alternative_tiers |-> savings_options]
                IN  [cost_data |->
                        [cd EXCEPT
                            !.current_monthly_cost = @ + current_cost,
                            !.savings_plan_3yr_monthly_cost =
                                @ + (IF Truthy(reserved_cost) THEN Val(reserved_cost)
                                     ELSE current_cost),
                            !.detailed.disks = Append(@, disk_detail)],
                     warning |-> None,
                     error |-> "none"]

\* An iteration that removes the record it has read from the pricing table.
CalcDiskConsuming ==
    /\ pc = "calc_disks"
    /\ calc_i < Len(disks)
    /\ LET out == CalculateDiskCost(cost_data, calc_i + 1)
           read == {<<disks[calc_i + 1].location, sku>> : sku \in disks[calc_i + 1].sku}
       IN  /\ cost_data' = out.cost_data
           /\ disk_pricing' = [k \in DOMAIN disk_pricing \ read |-> disk_pricing[k]]
           /\ warnings' = IF IsNone(out.warning) THEN warnings
                          ELSE BagAdd(warnings, Val(out.warning))
           /\ IF out.error = "none"
              THEN pc' = pc /\ raised' = raised /\ calc_i' = calc_i + 1
              ELSE pc' = "failed" /\ raised' = out.error /\ calc_i' = calc_i
    /\ UNCHANGED <<inputVars, vmVars, disk_region, disk_started, disk_visited,
                   requests, fetched, tierVars, rcVars, fetchVars>>

\* One iteration of the loop of lines 57-58.
CalcDisk ==
    /\ pc = "calc_disks"
    /\ calc_i < Len(disks)
    /\ LET out == CalculateDiskCost(cost_data, calc_i + 1)
       IN  /\ cost_data' = out.cost_data
           /\ warnings' = IF IsNone(out.warning) THEN warnings
                          ELSE BagAdd(warnings, Val(out.warning))
           /\ IF out.error = "none"
              THEN pc' = pc /\ raised' = raised /\ calc_i' = calc_i + 1
              ELSE pc' = "failed" /\ raised' = out.error /\ calc_i' = calc_i
    /\ UNCHANGED <<inputVars, vmVars, diskVars, requests, fetched, tierVars, rcVars, fetchVars>>

\* The share of the option instead of the saving.
PercentOfOption(base, option) == [num |-> option * 100, den |-> base]

\* (base - option) / base * 100
Percent(base, option) == [num |-> (base - option) * 100, den |-> base]

\* Lines 60-85.  (Lines 64-67 carry one space of indentation too many; they
\* are read as statements of the if block.)
WithPercentages(cd) ==
    LET base == cd.current_monthly_cost
    IN  IF base > 0
        THEN [cd EXCEPT
                !.savings_spot_percent = Percent(base, cd.spot_monthly_cost),
                !.reservations_low_priority_percent =
                    Percent(base, cd.low_priority_monthly_cost),
                !.savings_low_priority_percent =
                    Percent(base, cd.low_priority_monthly_cost),
                !.savings_plan_1yr_percent =
                    Percent(base, cd.savings_plan_1yr_monthly_cost),
                !.savings_plan_3yr_percent =
                    Percent(base, cd.savings_plan_3yr_monthly_cost),
                !.hybrid_savings_percent = Percent(base, cd.hybrid_monthly_cost),
                !.hybrid_savings_plan_1yr_percent =
                    Percent(base, cd.hybrid_savings_plan_1yr),
                !.hybrid_savings_plan_3yr_percent =
                    Percent(base, cd.hybrid_savings_plan_3yr)]
        ELSE cd

\* The loop of lines 57-58 is exhausted: percentages, return (lines 60-87).
CalcFinish ==
    /\ pc = "calc_disks"
    /\ calc_i = Len(disks)
    /\ cost_data' = WithPercentages(cost_data)
    /\ pc' = "done"
    /\ UNCHANGED <<inputVars, vmVars, diskVars, logVars, calc_i, raised, tierVars, rcVars, fetchVars>>

-----------------------------------------------------------------------------
(* Inputs                                                                   *)

\* Capacities within Slack of a breakpoint of any table.
Slack == 1
\* Records per reconciled query, resources per inventory.
MaxItems == 2
MaxVms == 2
MaxDisks == 2
\* URLs the catalog server knows; URL 1 is api_url with the query's params.
MaxPages == 3

Breakpoints ==
    DOMAIN PREMIUM_DISK_SIZES \cup DOMAIN STANDARD_SSD_SIZES
        \cup DOMAIN STANDARD_HDD_SIZES

Capacities ==
    {c \in UNION {(b - Slack)..(b + Slack) : b \in Breakpoints} : c >= 1}

\* Catalog records of a compute query.
VmItem(productName, type, meterName, retailPrice, savingsPlan) ==
    [productName |-> productName, type |-> type, meterName |-> meterName,
     retailPrice |-> retailPrice, savingsPlan |-> savingsPlan]
Plan(term, retailPrice) == [term |-> term, retailPrice |-> retailPrice]

\* The savings plan lists the model draws from; the last two have a plan
\* with a rate of 0 and a plan without a rate.
PlanLists ==
    {<<Plan("1 Year", Some(150))>>,
     <<Plan("3 Years", Some(100)), Plan("1 Year", Some(140)), Plan("5 Years", Some(90))>>,
     <<Plan("1 Year", Some(0))>>,
     <<Plan("3 Years", None)>>}

\* Records for the reconciliation of one query: standard consumption with a
\* missing, zero or positive rate, spot and low priority meters, records
\* with savings plans, dev/test records and a reservation record.
ReconcileItems ==
    {VmItem(p, "Consumption", "D4as v5", r, None) :
        p \in ProductNames, r \in {None, Some(0), Some(200), Some(380)}}
    \cup {VmItem(p, "Consumption", m, r, None) :
        p \in ProductNames, m \in MeterNames \ {"D4as v5"}, r \in {Some(30), Some(60)}}
    \cup {VmItem(p, "Consumption", "D4as v5", Some(200), Some(pl)) :
        p \in ProductNames, pl \in PlanLists}
    \cup {VmItem(p, "DevTestConsumption", "D4as v5", Some(120), Some(<<Plan("1 Year", Some(70))>>)) :
        p \in ProductNames}
    \cup {VmItem("Virtual Machines Dasv5 Series", "Reservation", "D4as v5", Some(900), None)}

Regions == {"eastus", "westeurope"}
VmSizeNames == {"Standard_D4as_v5", "Standard_B2s"}
OsTypes == {"Windows", "Linux"}

VmKinds == [location : Regions, vm_size : VmSizeNames, os_type : OsTypes]
VmKindsSmall == [location : {"eastus"}, vm_size : {"Standard_D4as_v5"}, os_type : OsTypes]

LinuxItem(r, sp) == VmItem("Virtual Machines Dasv5 Series", "Consumption", "D4as v5", r, sp)
WindowsItem(r) ==
    VmItem("Virtual Machines Dasv5 Series Windows", "Consumption", "D4as v5", r, None)

\* Outcomes of the fetch of a compute query in a run: a failed request, no
\* record, standard ongoing records of both OS families, a savings plan
\* without a rate.
VmResponses ==
    {FetchRaised,
     Fetched(<<>>),
     Fetched(<<LinuxItem(Some(200), None), WindowsItem(Some(380))>>),
     Fetched(<<LinuxItem(Some(200), Some(<<Plan("3 Years", None)>>))>>)}

Disk(location, sku, disk_size_gb) ==
    [location |-> location, sku |-> sku, disk_size_gb |-> disk_size_gb]

\* Volumes of one region: the three families, two capacities of the same
\* tier, and a zone-redundant class.
DiskKinds ==
    {Disk("eastus", Some("Premium_LRS"), Some(100)),
     Disk("eastus", Some("Premium_LRS"), Some(128)),
     Disk("eastus", Some("StandardSSD_LRS"), Some(100)),
     Disk("eastus", Some("Standard_LRS"), Some(100)),
     Disk("eastus", Some("Premium_ZRS"), Some(100))}

\* Volumes of two regions, and volumes with a class outside the families,
\* no class, no capacity.
DiskKindsOdd ==
    {Disk("eastus", Some("Premium_LRS"), Some(100)),
     Disk("westeurope", Some("Premium_LRS"), Some(100)),
     Disk("eastus", Some("UltraSSD_LRS"), Some(100)),
     Disk("eastus", None, Some(100)),
     Disk("eastus", Some("StandardSSD_LRS"), None)}

\* Inventories of two volumes of one class whose capacities resolve to
\* different tiers (P10 and P20).
DiskInventoriesTwoTiers ==
    {<<Disk("eastus", Some("Premium_LRS"), Some(100)),
       Disk("eastus", Some("Premium_LRS"), Some(300))>>,
     <<Disk("eastus", Some("Premium_LRS"), Some(300)),
       Disk("eastus", Some("Premium_LRS"), Some(100))>>}

DiskKindsSmall ==
    {Disk("eastus", Some("Premium_LRS"), Some(100)),
     Disk("eastus", Some("StandardSSD_LRS"), Some(100))}

DiskItem(type, retailPrice, reservationTerm) ==
    [type |-> type, retailPrice |-> retailPrice, reservationTerm |-> reservationTerm]

\* Outcomes of the fetch of a volume query in a run.
DiskResponses ==
    {FetchRaised,
     Fetched(<<>>),
     Fetched(<<DiskItem("Reservation", Some(7), "3 Years"),
               DiskItem("Consumption", Some(19), "")>>),
     Fetched(<<DiskItem("Consumption", Some(9), ""),
               DiskItem("Reservation", Some(8), "1 Year")>>),
     Fetched(<<DiskItem("Consumption", Some(0), "")>>),
     Fetched(<<DiskItem("Consumption", None, "")>>)}

\* The URLs of the catalog server, and the catalogs drawn: the page of a
\* URL has no Items key, an empty list or one record that names the page,
\* and a link to any URL or none.
Urls == 1..MaxPages
ItemsKinds == {"absent", "empty", "one"}
PageOf(u, kind, link) ==
    [Items |-> IF kind = "absent" THEN None
               ELSE IF kind = "empty" THEN Some(<<>>) ELSE Some(<<u>>),
     NextPageLink |-> link]
Catalogs ==
    {[u \in Urls |-> PageOf(u, f[u].kind, f[u].link)] :
        f \in [Urls -> [kind : ItemsKinds, link : {None} \cup {Some(u) : u \in Urls}]]}

-----------------------------------------------------------------------------
(* Specifications                                                           *)

TierIdle ==
    /\ size_gb = 1 /\ size_gb_2 = 1 /\ disk_type = "" /\ tier_name = "idle"
    /\ tier_name_2 = "idle"

RcIdle == rc_items = <<>> /\ rc_vm_size = "" /\ rc_out = None

RunIdle ==
    /\ virtual_machines = <<>> /\ disks = <<>> /\ debug = FALSE
    /\ pc = "idle"
    /\ vm_pricing = <<>> /\ vm_visited = {}
    /\ disk_pricing = <<>> /\ disk_region = None /\ disk_started = {}
    /\ disk_visited = {}
    /\ requests = <<>> /\ fetched = <<>> /\ warnings = <<>>
    /\ cost_data = InitialCostData /\ calc_i = 0
    /\ raised = "none"

FetchIdle ==
    /\ catalog = <<>> /\ current_url = 0 /\ all_items = <<>> /\ page_count = 0
    /\ fetch_pc = "idle" /\ fetch_log = <<>>

\* ---- DiskMapper.get_tier_from_size on drawn inputs
TierInit ==
    /\ size_gb \in Capacities
    /\ size_gb_2 \in Capacities
    /\ disk_type \in DiskTypes
    /\ tier_name = "unset"
    /\ tier_name_2 = "unset"
    /\ RcIdle /\ RunIdle /\ FetchIdle

TierCall ==
    /\ tier_name = "unset"
    /\ tier_name' = get_tier_from_size(size_gb, disk_type)
    /\ tier_name_2' = get_tier_from_size(size_gb_2, disk_type)
    /\ UNCHANGED <<size_gb, size_gb_2, disk_type, rcVars, runVars, fetchVars>>

TierNext == TierCall

SpecTier == TierInit /\ [][TierNext]_vars

\* ---- compute reconciliation on the drawn records of one query
RcInit ==
    /\ rc_items \in SeqsUpTo(ReconcileItems, MaxItems)
    /\ rc_vm_size \in VmSizeNames
    /\ rc_out = None
    /\ TierIdle /\ RunIdle /\ FetchIdle

RcCall ==
    /\ rc_vm_size \in VmSizeNames
    /\ rc_out = None
    /\ rc_out' = Some(ReconcileVm(rc_items, rc_vm_size))
    /\ UNCHANGED <<rc_items, rc_vm_size, tierVars, runVars, fetchVars>>

RcNext == RcCall

SpecReconcile == RcInit /\ [][RcNext]_vars

\* ---- the run: the state when get_pricing_data is called (lines 67-71)
\* with the inventory collected
RunStart ==
    /\ pc = "vm_pricing"
    /\ vm_pricing = <<>> /\ vm_visited = {}
    /\ disk_pricing = <<>> /\ disk_region = None /\ disk_started = {}
    /\ disk_visited = {}
    /\ requests = <<>> /\ fetched = <<>> /\ warnings = <<>>
    /\ cost_data = InitialCostData /\ calc_i = 0
    /\ raised = "none"

Init ==
    /\ \/ /\ virtual_machines \in SeqsUpTo(VmKinds, MaxVms)
          /\ disks = <<>>
          /\ debug = FALSE
       \/ /\ virtual_machines = <<>>
          /\ disks \in SeqsUpTo(DiskKinds, MaxDisks) \cup SeqsUpTo(DiskKindsOdd, MaxDisks)
                        \cup DiskInventoriesTwoTiers
          /\ debug = FALSE
       \/ /\ virtual_machines \in SeqsUpTo(VmKindsSmall, 1)
          /\ disks \in SeqsUpTo(DiskKindsSmall, 1)
          /\ debug \in BOOLEAN
    /\ RunStart
    /\ TierIdle /\ RcIdle /\ FetchIdle

Next ==
    \/ \E pair \in VmPlan(virtual_machines) \ vm_visited, resp \in VmResponses :
            VmQuery(pair[1], pair[2], resp)
    \/ VmPricingDone
    \/ \E region \in DiskRegions(disks) \ disk_started : DiskRegionStart(region)
    \/ \E pair \in DiskSizes(disks) \ disk_visited, resp \in DiskResponses :
            DiskPair(pair[1], pair[2], resp)
    \/ DiskPricingDone
    \/ CalcVm
    \/ CalcVmsDone
    \/ CalcDisk
    \/ CalcFinish

Spec == Init /\ [][Next]_vars

\* ---- _fetch_all_pricing_data against a drawn catalog
FetchInit ==
    /\ catalog \in Catalogs
    /\ FetchStart
    /\ TierIdle /\ RcIdle /\ RunIdle

FetchNext ==
    \/ FetchPage(MaxPages + 1)
    \/ FetchPageRaises(MaxPages + 1)

\* The loop runs as long as next_page is true: weak fairness of its iteration.
SpecFetch == FetchInit /\ [][FetchNext]_vars /\ WF_vars(FetchNext)

-----------------------------------------------------------------------------
(* The capacity of a tier name within a table *)

CapacityOf(sizes, name) == CHOOSE b \in DOMAIN sizes : sizes[b] = name

InFamily(t) == ReplaceZRS(t) \in {"Premium_LRS", "StandardSSD_LRS", "Standard_LRS"}

\* C6: for a class of the three families (after the _ZRS mapping) the result
\* is the tier of the smallest breakpoint >= the capacity, or the family's
\* largest tier when no breakpoint is >= the capacity; for any other class
\* the result is absent.
C6_TierForCapacity ==
    tier_name # "unset" =>
        IF InFamily(disk_type)
        THEN LET sizes == SizesOf(disk_type)
                 atLeast == {b \in DOMAIN sizes : b >= size_gb}
             IN  /\ atLeast # {} => tier_name = sizes[Min(atLeast)]
                 /\ atLeast = {} => tier_name = sizes[Max(DOMAIN sizes)]
        ELSE tier_name = "None"

\* C6 witness: a zone-redundant class, a capacity strictly between two
\* breakpoints, mapped.
C6_Witness ==
    /\ tier_name = "P10"
    /\ disk_type = "Premium_ZRS"
    /\ size_gb = 65

\* C7 as stated: rounding is monotone and the chosen tier's capacity is never
\* below the input capacity.
C7_NeverRoundsDown ==
    (tier_name # "unset" /\ InFamily(disk_type)) =>
        LET sizes == SizesOf(disk_type)
        IN  /\ size_gb <= size_gb_2 =>
                CapacityOf(sizes, tier_name) <= CapacityOf(sizes, tier_name_2)
            /\ CapacityOf(sizes, tier_name) >= size_gb

\* C7 amended: rounding is monotone, and the chosen tier's capacity is never
\* below the input capacity when the input is at most the family's largest
\* breakpoint; above it the largest tier is chosen.
C7_MonotoneClamped ==
    (tier_name # "unset" /\ InFamily(disk_type)) =>
        LET sizes == SizesOf(disk_type)
            largest == Max(DOMAIN sizes)
        IN  /\ size_gb <= size_gb_2 =>
                CapacityOf(sizes, tier_name) <= CapacityOf(sizes, tier_name_2)
            /\ size_gb <= largest => CapacityOf(sizes, tier_name) >= size_gb
            /\ size_gb > largest => CapacityOf(sizes, tier_name) = largest

\* C7 witness: two capacities in different buckets, the second oversized.
C7_Witness ==
    /\ tier_name = "S4"
    /\ tier_name_2 = "S80"
    /\ size_gb = 5
    /\ size_gb_2 = 32768

-----------------------------------------------------------------------------
(* The run: what has happened so far *)

\* _calculate_vm_cost has been called for resource i (and returned or raised).
VmHandled(i) ==
    \/ pc = "calc_vms" /\ i <= calc_i
    \/ pc \in {"calc_disks", "done"}
    \/ pc = "failed" /\ raised \in {"KeyError", "NameError"} /\ i <= calc_i + 1

\* The pricing record calculate_costs reads for resource i, None when the
\* table has no record for its region and size class.
VmRecordOf(i) ==
    LET vm == virtual_machines[i]
        key == <<vm.location, vm.vm_size>>
    IN  IF key \in DOMAIN vm_pricing THEN Some(vm_pricing[key][VmOsType(vm)]) ELSE None

VmDetailsOf(i) ==
    {d \in {cost_data.detailed.virtual_machines[j] :
                j \in DOMAIN cost_data.detailed.virtual_machines} : d.name = i}

OptionalSlots(pricing) == DOMAIN pricing \ {"pay_as_you_go"}

\* C1: with every catalog query failing or returning no record (and debug
\* off), get_pricing_data followed by calculate_costs never raises.
C1_RunNeverRaises ==
    (~debug /\ \A q \in DOMAIN fetched : ~fetched[q].ok \/ fetched[q].items = <<>>)
        => raised = "none"

\* C2: a resource priced from a record whose only present slot is the
\* standard ongoing rate gets a cost detail in which every purchasing option
\* costs the standard ongoing monthly cost.
C2_NoDiscountFallback ==
    \A i \in DOMAIN virtual_machines :
        (/\ VmHandled(i)
         /\ VmRecordOf(i) # None
         /\ Truthy(Val(VmRecordOf(i)).pay_as_you_go)
         /\ \A slot \in OptionalSlots(Val(VmRecordOf(i))) :
                IsNone(Val(VmRecordOf(i))[slot]))
        => \E d \in VmDetailsOf(i) :
              LET standard == Val(Val(VmRecordOf(i)).pay_as_you_go) * hours_per_month
              IN  /\ d.current_monthly_cost = standard
                  /\ d.spot_monthly_cost = standard
                  /\ d.low_priority_monthly_cost = standard
                  /\ d.savings_plan_1yr_monthly_cost = standard
                  /\ d.savings_plan_3yr_monthly_cost = standard

\* C3: a resource with a pricing record gets a cost detail in which each
\* option costs the slot's rate times 730 when the slot has a rate and the
\* standard ongoing monthly cost of its OS family otherwise; a resource
\* without a pricing record gets no detail.
C3_ComputeCostDetail ==
    \A i \in DOMAIN virtual_machines :
        VmHandled(i) =>
            IF VmRecordOf(i) = None THEN VmDetailsOf(i) = {}
            ELSE \E d \in VmDetailsOf(i) :
                    LET pricing == Val(VmRecordOf(i))
                        standard == IF IsNone(pricing.pay_as_you_go) THEN 0
                                    ELSE Val(pricing.pay_as_you_go) * hours_per_month
                        Cost(slot) == IF IsNone(slot) THEN standard
                                      ELSE Val(slot) * hours_per_month
                    IN  /\ d.current_monthly_cost = standard
                        /\ d.spot_monthly_cost = Cost(pricing.spot)
                        /\ d.low_priority_monthly_cost = Cost(pricing.low_priority)
                        /\ d.savings_plan_1yr_monthly_cost = Cost(pricing.savings_plan_1yr)
                        /\ d.savings_plan_3yr_monthly_cost = Cost(pricing.savings_plan_3yr)

\* The aggregate percentages with the accumulator each is computed from.
PercentagePairs(cd) ==
    {<<cd.savings_spot_percent, cd.spot_monthly_cost>>,
     <<cd.savings_low_priority_percent, cd.low_priority_monthly_cost>>,
     <<cd.reservations_low_priority_percent, cd.low_priority_monthly_cost>>,
     <<cd.savings_plan_1yr_percent, cd.savings_plan_1yr_monthly_cost>>,
     <<cd.savings_plan_3yr_percent, cd.savings_plan_3yr_monthly_cost>>,
     <<cd.hybrid_savings_percent, cd.hybrid_monthly_cost>>,
     <<cd.hybrid_savings_plan_1yr_percent, cd.hybrid_savings_plan_1yr>>,
     <<cd.hybrid_savings_plan_3yr_percent, cd.hybrid_savings_plan_3yr>>}

\* C4: after calculate_costs every aggregate savings percentage is 0 (and no
\* division took place) when the baseline is 0; with a positive baseline it
\* equals (baseline - option) / baseline * 100 and lies in [0, 100] when the
\* option's aggregate is between 0 and the baseline.
C4_SavingsPercentages ==
    pc = "done" =>
        LET base == cost_data.current_monthly_cost
        IN  \A pp \in PercentagePairs(cost_data) :
                LET percent == pp[1]
                    option == pp[2]
                IN  /\ percent.den > 0
                    /\ base = 0 => percent.num = 0
                    /\ base > 0 =>
                        /\ percent.num * base = (base - option) * 100 * percent.den
                        /\ (0 <= option /\ option <= base) =>
                            (0 <= percent.num /\ percent.num <= 100 * percent.den)

\* C4 witness: a finished calculation with a positive baseline and a
\* reservation rate below it.
C4_Witness ==
    /\ pc = "done"
    /\ cost_data.current_monthly_cost > 0
    /\ cost_data.savings_plan_3yr_monthly_cost > 0
    /\ cost_data.savings_plan_3yr_monthly_cost < cost_data.current_monthly_cost
    /\ cost_data.savings_plan_3yr_percent.num > 0

\* The rate of the last standard ongoing record of an OS family among the
\* records of a query, None when there is none.
StandardRecords(items, os_type) ==
    {i \in DOMAIN items :
        /\ items[i].type = "Consumption"
        /\ ~HasSpot(items[i].meterName)
        /\ ~HasLowPriority(items[i].meterName)
        /\ OsTypeOf(items[i]) = os_type}
LastStandardRate(items, os_type) ==
    IF StandardRecords(items, os_type) = {} THEN None
    ELSE items[Max(StandardRecords(items, os_type))].retailPrice

Reconciled == rc_out # None /\ ~Val(rc_out).failed

\* C5 as stated: when a standard ongoing price was observed for both OS
\* families, hybrid_benefit is the bring-your-own (Linux) price.
C5_HybridWheneverObserved ==
    (/\ Reconciled
     /\ LastStandardRate(rc_items, "linux") # None
     /\ LastStandardRate(rc_items, "windows") # None)
    => Val(rc_out).pricing_result.windows.hybrid_benefit
            = LastStandardRate(rc_items, "linux")

\* C5 amended: when the last standard ongoing record of each OS family
\* carries a non-zero rate, hybrid_benefit is the Linux one of the two,
\* whatever the Windows rate and the order of arrival; otherwise
\* hybrid_benefit stays absent.
C5_HybridIsLinuxBase ==
    Reconciled =>
        LET B == LastStandardRate(rc_items, "linux")
            W == LastStandardRate(rc_items, "windows")
            hybrid_benefit == Val(rc_out).pricing_result.windows.hybrid_benefit
        IN  IF Truthy(B) /\ Truthy(W) THEN hybrid_benefit = B
            ELSE hybrid_benefit = None

\* C5 witness: the Windows record arrives first, the Linux record second.
C5_Witness ==
    /\ Reconciled
    /\ Len(rc_items) = 2
    /\ OsTypeOf(rc_items[1]) = "windows"
    /\ LastStandardRate(rc_items, "windows") = Some(380)
    /\ LastStandardRate(rc_items, "linux") = Some(200)
    /\ Val(rc_out).pricing_result.windows.hybrid_benefit = Some(200)

\* C8: every compute request is for a pair of (regions of compute resources)
\* x (size classes of compute resources) and is issued once; when
\* _get_vm_pricing has returned each pair of the product has been requested.
C8_OneQueryPerPair ==
    LET regions == {virtual_machines[i].location : i \in DOMAIN virtual_machines}
        sizes == {virtual_machines[i].vm_size : i \in DOMAIN virtual_machines}
    IN  /\ \A k \in DOMAIN requests :
              k.kind = "vm" =>
                  /\ requests[k] = 1
                  /\ k.armRegionName \in regions
                  /\ k.skuName \in sizes
        /\ pc # "vm_pricing" =>
              \A r \in regions, z \in sizes : BagCount(requests, VmRequest(r, z)) = 1

\* C8 witness: two resources of the same region and size class; when
\* _get_vm_pricing has returned their pair has been requested once.
C8_Witness ==
    /\ pc = "disk_pricing"
    /\ Len(virtual_machines) = 2
    /\ virtual_machines[1].location = virtual_machines[2].location
    /\ virtual_machines[1].vm_size = virtual_machines[2].vm_size
    /\ BagCount(requests, VmRequest(virtual_machines[1].location,
                                    virtual_machines[1].vm_size)) = 1
    /\ Cardinality(DOMAIN requests) = 1

\* C9: one physical request per unique (region, storage class, tier): no
\* volume request is issued twice.
C9_OneRequestPerTier ==
    \A k \in DOMAIN requests : k.kind = "disk" => requests[k] = 1

\* C10: a query whose fetch raised leaves no pricing record under its key:
\* (region, size class) for a compute query, (region, storage class) for a
\* volume query.
C10_NoRecordForFailedQuery ==
    \A q \in DOMAIN fetched :
        ~fetched[q].ok =>
            IF q[1] = "vm" THEN <<q[2], q[3]>> \notin DOMAIN vm_pricing
            ELSE <<q[2], q[3]>> \notin DOMAIN disk_pricing

\* The details of volume i in the cost result.
DiskDetailsOf(i) ==
    {d \in {cost_data.detailed.disks[j] : j \in DOMAIN cost_data.detailed.disks} :
        d.name = i}

\* A warning or error line that names the class and capacity of volume i.
DiskWarned(i) ==
    /\ disks[i].sku # None
    /\ disks[i].disk_size_gb # None
    /\ \E w \in DOMAIN warnings :
          /\ w.kind \in {"disk_error", "no_tier", "no_price"}
          /\ w.sku = Val(disks[i].sku)
          /\ w.size = Val(disks[i].disk_size_gb)

\* C11: when calculate_costs has returned, every resource of the inventory
\* without a cost detail has a warning that names it: the region and size
\* class of a compute resource, the class and capacity of a volume.
C11_NoSilentDrop ==
    pc = "done" =>
        /\ \A i \in DOMAIN virtual_machines :
              VmDetailsOf(i) = {} =>
                  BagCount(warnings, VmError(virtual_machines[i].location,
                                             virtual_machines[i].vm_size)) >= 1
        /\ \A i \in DOMAIN disks : DiskDetailsOf(i) = {} => DiskWarned(i)

\* The key the cost derivation is to use for a capacity: the smallest key
\* at or above it, the largest key when there is none.
NearestKey(keys, size) ==
    IF {k \in keys : k >= size} # {} THEN Min({k \in keys : k >= size})
    ELSE Max(keys)

\* C12: the current cost in the detail of a volume is the ongoing price of
\* its (region, class) record at the smallest ongoing-price key >= the
\* declared capacity, or at the largest key when no key is >= the capacity.
C12_NearestTableKey ==
    \A i \in DOMAIN disks :
        \A d \in DiskDetailsOf(i) :
            LET payg == disk_pricing[<<disks[i].location, Val(disks[i].sku)>>].pay_as_you_go
            IN  /\ DOMAIN payg # {}
                /\ Some(d.current_monthly_cost)
                      = payg[NearestKey(DOMAIN payg, Val(disks[i].disk_size_gb))]

\* C12 witness: a volume of 100 whose record has the key 128 only is priced
\* at key 128.
C12_Witness ==
    /\ pc = "done"
    /\ \E i \in DOMAIN disks :
          /\ disks[i].disk_size_gb = Some(100)
          /\ disks[i].sku = Some("Premium_LRS")
          /\ disks[i].location = "eastus"
          /\ <<"eastus", "Premium_LRS">> \in DOMAIN disk_pricing
          /\ DOMAIN disk_pricing[<<"eastus", "Premium_LRS">>].pay_as_you_go = {128}
          /\ \E d \in DiskDetailsOf(i) : d.current_monthly_cost = 9

\* The substitution alternatives listed in a volume's detail.
AlternativesOf(d) == {d.alternative_tiers[j] : j \in DOMAIN d.alternative_tiers}

\* C13: every alternative listed for a volume costs less than the volume's
\* current cost, and its tier's capacity is at least the declared capacity.
C13_AlternativesCheaper ==
    \A i \in DOMAIN disks :
        \A d \in DiskDetailsOf(i) :
            \A alt \in AlternativesOf(d) :
                /\ alt.cost < d.current_monthly_cost
                /\ CapacityOf(SizesOf(alt.type), alt.tier_name) >= d.size_gb

\* cost_data after the first n iterations of the loop of lines 53-54, and
\* after the first n iterations of the loop of lines 57-58 that follows it,
\* computed from the inventory and the pricing table alone.
RECURSIVE CostDataAfterVms(_)
CostDataAfterVms(n) ==
    IF n = 0 THEN InitialCostData
    ELSE CalculateVmCost(CostDataAfterVms(n - 1), n).cost_data

RECURSIVE CostDataAfterDisks(_)
CostDataAfterDisks(n) ==
    IF n = 0 THEN CostDataAfterVms(Len(virtual_machines))
    ELSE CalculateDiskCost(CostDataAfterDisks(n - 1), n).cost_data

\* The CostResult is a function of the inventory and the pricing table.
ResultFromInputs ==
    /\ pc = "calc_vms" => cost_data = CostDataAfterVms(calc_i)
    /\ pc = "calc_disks" => cost_data = CostDataAfterDisks(calc_i)
    /\ pc = "done" => cost_data = WithPercentages(CostDataAfterDisks(Len(disks)))

\* No step of calculate_costs changes the inventory or the pricing table.
InputsKept ==
    pc \in {"calc_vms", "calc_disks"} =>
        UNCHANGED <<virtual_machines, disks, vm_pricing, disk_pricing>>

DiskHandled(i) ==
    \/ pc = "calc_disks" /\ i <= calc_i
    \/ pc = "done"
    \/ pc = "failed" /\ raised = "IndexError" /\ i <= calc_i + 1

\* Volume i has class and capacity and a (region, class) record that holds
\* no ongoing price for the key resolved for the capacity.
NoOngoingPrice(i) ==
    /\ disks[i].sku # None
    /\ Truthy(disks[i].disk_size_gb)
    /\ <<disks[i].location, Val(disks[i].sku)>> \in DOMAIN disk_pricing
    /\ LET payg == disk_pricing[<<disks[i].location, Val(disks[i].sku)>>].pay_as_you_go
       IN  \/ DOMAIN payg = {}
           \/ IsNone(payg[NearestKey(DOMAIN payg, Val(disks[i].disk_size_gb))])

\* C15: for a volume whose record holds no ongoing price for the resolved
\* key (an empty ongoing-price map included) _calculate_disk_cost prints the
\* warning, appends no detail and returns without raising.
C15_NoPriceSkipped ==
    \A i \in DOMAIN disks :
        (DiskHandled(i) /\ NoOngoingPrice(i)) =>
            /\ BagCount(warnings, NoPriceWarning(disks[i].location, Val(disks[i].sku),
                                                 Val(disks[i].disk_size_gb))) >= 1
            /\ DiskDetailsOf(i) = {}
            /\ ~(pc = "failed" /\ i = calc_i + 1)

\* The sum of the 1-year reservation costs in the details of the volumes.
RECURSIVE ReservedSum(_, _)
ReservedSum(details, n) ==
    IF n = 0 THEN 0
    ELSE ReservedSum(details, n - 1)
            + (IF IsNone(details[n].reserved_monthly_cost) THEN 0
               ELSE Val(details[n].reserved_monthly_cost))

\* C16: after calculate_costs the 1-year accumulators (savings_plan_1yr and
\* reservations_1yr, taken together) hold the 1-year reservation cost of
\* every volume in the detailed list.
C16_ReservationInOneYear ==
    pc = "done" =>
        cost_data.savings_plan_1yr_monthly_cost + cost_data.reservations_1yr_monthly_cost
            >= ReservedSum(cost_data.detailed.disks, Len(cost_data.detailed.disks))

\* The slot a consumption item classifies into.
SlotOf(item) ==
    IF HasSpot(item.meterName) THEN "spot"
    ELSE IF HasLowPriority(item.meterName) THEN "low_priority"
    ELSE "pay_as_you_go"

\* The rate of the last consumption item of an OS family that classifies
\* into a slot, None when there is none.
LastRate(items, os_type, slot) ==
    LET matching == {i \in DOMAIN items :
                        /\ items[i].type = "Consumption"
                        /\ OsTypeOf(items[i]) = os_type
                        /\ SlotOf(items[i]) = slot}
    IN  IF matching = {} THEN None ELSE items[Max(matching)].retailPrice

IsDevTest(item) == item.type = "DevTestConsumption"
NotDevTest(item) == ~IsDevTest(item)

\* C17: after reconciliation the spot, low-priority and standard ongoing
\* slot of each OS family holds the rate of the last consumption item that
\* classifies into it (spot marker first, then low-priority marker, else
\* standard ongoing), and the record is the one obtained without the
\* dev/test items.
C17_LastMatchingWins ==
    Reconciled =>
        /\ \A os_type \in {"linux", "windows"} :
              \A slot \in {"spot", "low_priority", "pay_as_you_go"} :
                  Val(rc_out).pricing_result[os_type][slot]
                      = LastRate(rc_items, os_type, slot)
        /\ Val(rc_out).pricing_result
              = ReconcileVm(SelectSeq(rc_items, NotDevTest), rc_vm_size).pricing_result

\* C17 witness: two standard ongoing Linux items at different rates, the
\* second wins.
C17_Witness ==
    /\ Reconciled
    /\ Len(rc_items) = 2
    /\ LastRate(<<rc_items[1]>>, "linux", "pay_as_you_go") = Some(380)
    /\ LastRate(<<rc_items[2]>>, "linux", "pay_as_you_go") = Some(200)
    /\ Val(rc_out).pricing_result.linux.pay_as_you_go = Some(200)

\* The records with the commitment entries of the Windows items removed.
WithoutWindowsPlans(items) ==
    [i \in DOMAIN items |->
        IF OsTypeOf(items[i]) = "windows" THEN [items[i] EXCEPT !.savingsPlan = None]
        ELSE items[i]]

\* The static surcharge of a size class.
Surcharge(vm_size) ==
    IF vm_size \in DOMAIN windows_license_cost THEN windows_license_cost[vm_size] ELSE 0

\* C18: after reconciliation the Windows 1yr and 3yr commitment slots are
\* absent when the Linux slot of the term is absent and otherwise the Linux
\* rate plus the surcharge of the size class; the commitment entries of
\* Windows items change nothing.
C18_WindowsCommitmentDerived ==
    Reconciled =>
        LET result == Val(rc_out).pricing_result
        IN  /\ \A slot \in {"savings_plan_1yr", "savings_plan_3yr"} :
                  result.windows[slot] =
                      IF IsNone(result.linux[slot]) THEN None
                      ELSE Some(Val(result.linux[slot]) + Surcharge(rc_vm_size))
            /\ result = ReconcileVm(WithoutWindowsPlans(rc_items), rc_vm_size).pricing_result

\* C18 witness: a Linux item with a 1-year plan at 150 for a size class of
\* the surcharge table (184), and a Windows item that carries a plan.
C18_Witness ==
    /\ Reconciled
    /\ rc_vm_size = "Standard_D4as_v5"
    /\ Len(rc_items) = 2
    /\ OsTypeOf(rc_items[2]) = "windows"
    /\ rc_items[2].savingsPlan # None
    /\ Val(rc_out).pricing_result.linux.savings_plan_1yr = Some(150)
    /\ Val(rc_out).pricing_result.windows.savings_plan_1yr = Some(334)

\* C19 as stated: with a standard ongoing price observed for both OS
\* families the license-portability-plus-commitment slots equal the Linux
\* commitment slots; otherwise the three license-portability slots are
\* absent.
C19_HybridPlansWheneverObserved ==
    Reconciled =>
        LET result == Val(rc_out).pricing_result
        IN  IF /\ LastStandardRate(rc_items, "linux") # None
               /\ LastStandardRate(rc_items, "windows") # None
            THEN /\ result.windows.hybrid_savings_plan_1yr = result.linux.savings_plan_1yr
                 /\ result.windows.hybrid_savings_plan_3yr = result.linux.savings_plan_3yr
            ELSE /\ result.windows.hybrid_benefit = None
                 /\ result.windows.hybrid_savings_plan_1yr = None
                 /\ result.windows.hybrid_savings_plan_3yr = None

\* A slot as a truth-value test passes it on: absent when absent or 0.
IfTruthy(slot) == IF Truthy(slot) THEN slot ELSE None

\* C19 amended: when the last standard ongoing record of each OS family has
\* a non-zero rate, each license-portability-plus-commitment slot equals the
\* Linux commitment slot of the term when that is a non-zero rate and is
\* absent otherwise; in every other case the three license-portability slots
\* are absent.
C19_HybridPlansFollowLinux ==
    Reconciled =>
        LET result == Val(rc_out).pricing_result
        IN  IF /\ Truthy(LastStandardRate(rc_items, "linux"))
               /\ Truthy(LastStandardRate(rc_items, "windows"))
            THEN /\ result.windows.hybrid_savings_plan_1yr
                        = IfTruthy(result.linux.savings_plan_1yr)
                 /\ result.windows.hybrid_savings_plan_3yr
                        = IfTruthy(result.linux.savings_plan_3yr)
            ELSE /\ result.windows.hybrid_benefit = None
                 /\ result.windows.hybrid_savings_plan_1yr = None
                 /\ result.windows.hybrid_savings_plan_3yr = None

\* C19 witness: both base prices and Linux plans of both terms.
C19_Witness ==
    /\ Reconciled
    /\ LastStandardRate(rc_items, "windows") = Some(380)
    /\ Val(rc_out).pricing_result.linux.savings_plan_1yr = Some(140)
    /\ Val(rc_out).pricing_result.windows.hybrid_savings_plan_1yr = Some(140)
    /\ Val(rc_out).pricing_result.windows.hybrid_savings_plan_3yr = Some(100)

\* C20: every key of the ongoing-price map and of the reservation map of a
\* (region, class) record is a breakpoint of the class's tier table.
C20_RatesUnderTierKey ==
    \A k \in DOMAIN disk_pricing :
        \A c \in DOMAIN disk_pricing[k].pay_as_you_go \cup DOMAIN disk_pricing[k].reserved :
            c \in DOMAIN SizesOf(k[2])

\* The volume reconciliation has finished (the loops of lines 213-300 are over).
DiskPricingFinished == pc \notin {"vm_pricing", "disk_pricing"}

\* The final rates of a family at a capacity key, in the shape of an
\* alternatives entry.
FinalRates(region, alt_sku, c) ==
    [pay_as_you_go |-> Get(disk_pricing[<<region, alt_sku>>].pay_as_you_go, c),
     reserved |-> Get(disk_pricing[<<region, alt_sku>>].reserved, c)]

\* C21: when the volume reconciliation has finished, every alternatives entry
\* of a Premium_LRS record holds, for each other family present in the region,
\* that family's final ongoing and reservation rates at the same capacity key,
\* whatever the order in which the (class, capacity) pairs were queried.
C21_AlternativesAreFinalRates ==
    DiskPricingFinished =>
        \A k \in DOMAIN disk_pricing :
            k[2] = "Premium_LRS" =>
                \A c \in DOMAIN disk_pricing[k].alternatives :
                    \A alt_sku \in DOMAIN disk_pricing[k].alternatives[c] :
                        disk_pricing[k].alternatives[c][alt_sku]
                            = FinalRates(k[1], alt_sku, c)

\* The other two families whose ongoing price at key c is available in the
\* region's records.
AvailableAlternatives(region, c) ==
    {a \in {"StandardSSD_LRS", "Standard_LRS"} :
        /\ <<region, a>> \in DOMAIN disk_pricing
        /\ Get(disk_pricing[<<region, a>>].pay_as_you_go, c) # None}

\* C22: the detail of a Premium volume lists exactly one alternative for each
\* of the other two families whose ongoing price at the volume's resolved
\* capacity key is available; its cost is that price, its saving is the
\* current cost minus that price, and its percentage is the saving over the
\* current cost times 100, 0 when the current cost is 0. The detail of a
\* volume of another family lists no alternative.
C22_AlternativesListed ==
    \A i \in DOMAIN disks :
        \A d \in DiskDetailsOf(i) :
            LET region == disks[i].location
                payg == disk_pricing[<<region, d.sku>>].pay_as_you_go
                c == NearestKey(DOMAIN payg, d.size_gb)
            IN  IF StartsWithPremium(d.sku)
                THEN /\ {alt.type : alt \in AlternativesOf(d)} = AvailableAlternatives(region, c)
                     /\ Len(d.alternative_tiers) = Cardinality(AvailableAlternatives(region, c))
                     /\ \A alt \in AlternativesOf(d) :
                           /\ Some(alt.cost)
                                 = Get(disk_pricing[<<region, alt.type>>].pay_as_you_go, c)
                           /\ alt.savings = d.current_monthly_cost - alt.cost
                           /\ IF d.current_monthly_cost = 0
                              THEN alt.savings_percent.num = 0
                              ELSE alt.savings_percent.num * d.current_monthly_cost
                                     = alt.savings * 100 * alt.savings_percent.den
                ELSE d.alternative_tiers = <<>>

\* C22 witness: a Premium volume at 9 with the Standard SSD alternative at 19
\* (a saving of -10) and no Standard HDD alternative.
C22_Witness ==
    /\ pc = "done"
    /\ \E i \in DOMAIN disks :
          \E d \in DiskDetailsOf(i) :
              /\ d.sku = "Premium_LRS"
              /\ d.current_monthly_cost = 9
              /\ Len(d.alternative_tiers) = 1
              /\ d.alternative_tiers[1].type = "StandardSSD_LRS"
              /\ d.alternative_tiers[1].cost = 19
              /\ d.alternative_tiers[1].savings = -10
              /\ d.alternative_tiers[1].savings_percent = [num |-> -1000, den |-> 9]

\* The three families of tier tables.
Families == {"Premium_LRS", "StandardSSD_LRS", "Standard_LRS"}

\* C23: the three families' tier tables have the same set of capacity
\* breakpoints, so a capacity resolves to a tier of the same capacity in
\* every family, and every family has a tier for it.
C23_SameBreakpoints ==
    tier_name # "unset" =>
        /\ \A t1, t2 \in Families : DOMAIN SizesOf(t1) = DOMAIN SizesOf(t2)
        /\ \A t1, t2 \in Families :
              CapacityOf(SizesOf(t1), get_tier_from_size(size_gb, t1))
                  = CapacityOf(SizesOf(t2), get_tier_from_size(size_gb, t2))
        /\ DOMAIN get_disk_tiers(size_gb) = Families

\* The inner loop of lines 226-300 has handled the pair in the region.
PairProcessed(region, pair) ==
    /\ region \in disk_started
    /\ disk_region = Some(region) => pair \in disk_visited

\* get_tier_from_size returns None for the pair (line 229).
Unresolvable(pair) == get_tier_from_size(pair[2], pair[1]) = "None"

\* C24: a (class, capacity) pair whose tier cannot be resolved produces one
\* warning per region that handled it and no catalog query, and every other
\* pair is queried in every region: when the volume reconciliation has
\* finished, every pair has been handled in every region.
C24_UnresolvableSkipped ==
    /\ \A pair \in DiskSizes(disks) :
          IF Unresolvable(pair)
          THEN /\ BagCount(warnings, NoTierWarning(pair[1], pair[2]))
                     = Cardinality({r \in DiskRegions(disks) : PairProcessed(r, pair)})
               /\ \A r \in DiskRegions(disks) :
                     DiskIteration(r, pair[1], pair[2]) \notin DOMAIN fetched
               /\ \A q \in DOMAIN requests : q.productName # ProductName(pair[1])
          ELSE \A r \in DiskRegions(disks) :
                  PairProcessed(r, pair) =>
                      /\ DiskIteration(r, pair[1], pair[2]) \in DOMAIN fetched
                      /\ BagCount(requests,
                             DiskRequest(r, pair[1],
                                 get_tier_from_size(pair[2], pair[1]))) >= 1
    /\ DiskPricingFinished =>
          \A r \in DiskRegions(disks) :
              \A pair \in DiskSizes(disks) : PairProcessed(r, pair)

\* C24 witness: the reconciliation has finished with the warning for an
\* UltraSSD_LRS pair and the rates of a Premium_LRS pair of the same region.
C24_Witness ==
    /\ DiskPricingFinished
    /\ <<"UltraSSD_LRS", 100>> \in DiskSizes(disks)
    /\ BagCount(warnings, NoTierWarning("UltraSSD_LRS", 100)) = 1
    /\ <<"eastus", "Premium_LRS">> \in DOMAIN disk_pricing
    /\ Get(disk_pricing[<<"eastus", "Premium_LRS">>].pay_as_you_go, 100) = Some(9)

\* The URLs reached from URL u by following the links, in order, up to the
\* first page without a link or the first link to a URL already reached.
RECURSIVE LinkChain(_, _)
LinkChain(u, seen) ==
    IF catalog[u].NextPageLink = None \/ Val(catalog[u].NextPageLink) \in seen \cup {u}
    THEN <<u>>
    ELSE <<u>> \o LinkChain(Val(catalog[u].NextPageLink), seen \cup {u})

\* The Items of the pages of a list of URLs, concatenated in order.
RECURSIVE ItemsOf(_)
ItemsOf(urls) ==
    IF urls = <<>> THEN <<>>
    ELSE (IF catalog[Head(urls)].Items = None THEN <<>> ELSE Val(catalog[Head(urls)].Items))
            \o ItemsOf(Tail(urls))

\* C25: every catalog query terminates: the fetch ends (by returning or by
\* raising), it never loops forever; and when it returns, it has requested
\* the pages of the link chain once each, in order, and returns their
\* records concatenated in page order.
C25_FetchTerminates ==
    /\ <>(fetch_pc \in {"returned", "raised"})
    /\ [](fetch_pc = "returned" =>
            /\ fetch_log = LinkChain(1, {})
            /\ all_items = ItemsOf(fetch_log))

\* A catalog query of the run has failed: its fetch raised (an HTTP error
\* status such as 401 raises in raise_for_status like any other failure).
SomeQueryFailed == \E q \in DOMAIN fetched : ~fetched[q].ok

\* C26: after a catalog query has failed with a fatal error, no further
\* catalog query is issued in the run.
C26_NoQueryAfterFailure ==
    [][SomeQueryFailed => requests' = requests]_vars

\* No volume record carries a reservation rate that counts (lines 208-213
\* test it by truth value).
NoDiscountedRate ==
    \A k \in DOMAIN disk_pricing :
        \A c \in DOMAIN disk_pricing[k].reserved : ~Truthy(disk_pricing[k].reserved[c])

\* C27: when no record used carries a discounted rate, calculate_costs
\* returns every aggregate option total equal to the baseline total and every
\* aggregate savings percentage 0: a volume counted in the baseline is
\* counted in every option total.
C27_NoDiscountNoSavings ==
    (pc = "done" /\ NoDiscountedRate) =>
        \A pp \in PercentagePairs(cost_data) :
            /\ pp[2] = cost_data.current_monthly_cost
            /\ pp[1].num = 0

\* C28: in every volume detail the tier name and the current cost refer to
\* the same tier: the ongoing-price key the cost was read at was reconciled
\* for the tier the mapper resolves for the declared capacity, also when the
\* record covers only some capacities and the nearest key is another one.
C28_TierAndCostAgree ==
    \A i \in DOMAIN disks :
        \A d \in DiskDetailsOf(i) :
            LET payg == disk_pricing[<<disks[i].location, d.sku>>].pay_as_you_go
            IN  get_tier_from_size(NearestKey(DOMAIN payg, d.size_gb), d.sku) = d.tier_name

\* get_pricing_data has raised: the exceptions of the debug block.
PricingRaised == pc = "failed" /\ raised \in {"UnboundLocalError", "TypeError"}

\* The record a volume query's answer gives with the debug flag off.
DebugOffRecord(q) == DiskTry(EmptyDiskRecord, fetched[q], q[4], FALSE).rec

\* C29: the debug flag does not influence the results. A run without the
\* flag never raises in get_pricing_data and stores, for every volume query,
\* the rates DebugOffRecord gives; so a run with the flag on the same
\* inventory and the same catalog answers does neither raise there nor
\* store other rates.
C29_DebugNeutral ==
    /\ ~PricingRaised
    /\ \A q \in DOMAIN fetched :
          q[1] = "disk" =>
              /\ Get(disk_pricing[<<q[2], q[3]>>].pay_as_you_go, q[4])
                    = Get(DebugOffRecord(q).pay_as_you_go, q[4])
              /\ Get(disk_pricing[<<q[2], q[3]>>].reserved, q[4])
                    = Get(DebugOffRecord(q).reserved, q[4])

\* The outcome of the try block of lines 93-172 for the answer the catalog
\* gave to the query of key k.
VmOutcomeOf(k) == ReconcileVm(fetched[VmIteration(k[1], k[2])].items, k[2])

\* C30: a compute pricing record is all-or-nothing and written once. A key
\* (region, size class) is in the table only if its query was answered in
\* full and every record was folded, and then holds the complete fold of that
\* answer; a query whose fetch or fold failed leaves its key absent; and an
\* entry of the table is never changed or removed by a later step.
C30_RecordAllOrNothing ==
    /\ [](\A k \in DOMAIN vm_pricing :
            /\ VmIteration(k[1], k[2]) \in DOMAIN fetched
            /\ fetched[VmIteration(k[1], k[2])].ok
            /\ ~VmOutcomeOf(k).failed
            /\ vm_pricing[k] = VmOutcomeOf(k).pricing_result)
    /\ [][\A k \in DOMAIN vm_pricing :
            k \in DOMAIN vm_pricing' /\ vm_pricing'[k] = vm_pricing[k]]_vars

\* C30 witness: two compute queries answered, one whose fold raised at a
\* record and left its key absent, one whose record is stored.
C30_Witness ==
    \E k1, k2 \in VmPlan(virtual_machines) :
        /\ k1 \in DOMAIN vm_pricing
        /\ vm_pricing[k1].linux.pay_as_you_go = Some(200)
        /\ vm_pricing[k1].windows.pay_as_you_go = Some(380)
        /\ VmIteration(k2[1], k2[2]) \in DOMAIN fetched
        /\ fetched[VmIteration(k2[1], k2[2])].ok
        /\ VmOutcomeOf(k2).failed
        /\ k2 \notin DOMAIN vm_pricing

=============================================================================
